---- MODULE Spec2Model ----
(***************************************************************************)
(* Webhook dispatch and delivery tracking (WebhookService) of Pimo.        *)
(*                                                                         *)
(* The state is the two database tables the service uses (webhooks and     *)
(* webhook_deliveries), one triggerEvent call, the deliverWebhook          *)
(* invocations it starts (one record per pipeline, holding the position    *)
(* of the invocation that is currently running or scheduled), the HTTP     *)
(* requests put on the wire, what the service has logged, and the last     *)
(* response of the admin routes (/api/admin/webhooks).                     *)
(***************************************************************************)
EXTENDS Integers, Sequences, FiniteSets, Bags, TLC

(***************************************************************************)
(* Bounds of the model and constants of the program.                       *)
(***************************************************************************)
\* Largest retry_count stored in a webhooks row of the initial table.
MaxRetryCount == 2

\* `webhook.retryCount || 3`
DefaultRetryCount == 3

\* `Math.pow(2, attempt) * 1000`
BackoffBase == 2
BackoffUnitMs == 1000

Tenants == {"tX", "tY"}
WebhookIds == {"w1", "w2"}
EventTypes == {"video.deleted", "folder.created"}
EventData == {"d1"}

\* What an endpoint answers.  0..199 cannot be the final status of a fetch.
Statuses == {200, 299, 300, 500}
\* Ways fetch() rejects: a connection error, or AbortSignal.timeout(30000).
FetchErrors == {"fetch failed", "The operation was aborted due to timeout"}
\* Message of the error a rejected db.insert raises.
InsertError == "insert into webhook_deliveries failed"

(***************************************************************************)
(* Nullable column values and JavaScript truthiness.                       *)
(***************************************************************************)
Null == <<>>
Some(v) == <<v>>
IsNull(x) == x = <<>>
Val(x) == x[1]

\* Truthiness of a nullable string (`if (webhook.secret)`).
TruthyString(x) == ~IsNull(x) /\ Val(x) # ""
\* Truthiness of a nullable integer (the left side of `webhook.retryCount || 3`).
TruthyNumber(x) == ~IsNull(x) /\ Val(x) # 0

(***************************************************************************)
(* A JavaScript object with string keys: its entries in insertion order.   *)
(***************************************************************************)
ObjKeys(o) == {o[i][1] : i \in 1..Len(o)}

\* o[k] = v: replaces the value of an existing key in place, appends a new key.
ObjSet(o, k, v) ==
    IF k \in ObjKeys(o)
    THEN [i \in 1..Len(o) |-> IF o[i][1] = k THEN <<k, v>> ELSE o[i]]
    ELSE Append(o, <<k, v>>)

\* { ...o, ...src }
RECURSIVE ObjSpread(_, _)
ObjSpread(o, src) ==
    IF src = <<>> THEN o
    ELSE ObjSpread(ObjSet(o, src[1][1], src[1][2]), Tail(src))

(***************************************************************************)
(* fetch() turns the headers object into a header list: names are          *)
(* case-insensitive, so every entry is appended under its lower-cased      *)
(* name, and entries whose names differ only in case end up as one header  *)
(* with the values joined by ", ".                                         *)
(***************************************************************************)
LowerCase(name) ==
    CASE name = "Content-Type" -> "content-type"
      [] name = "User-Agent" -> "user-agent"
      [] name = "X-Webhook-Event" -> "x-webhook-event"
      [] name = "X-Webhook-Delivery-ID" -> "x-webhook-delivery-id"
      [] name = "X-Webhook-Signature" -> "x-webhook-signature"
      [] name = "X-Custom" -> "x-custom"
      [] OTHER -> name

RECURSIVE WireValue(_, _)
\* The value sent for the header `lname`, Null when the header is not sent.
WireValue(o, lname) ==
    IF o = <<>> THEN Null
    ELSE LET rest == WireValue(Tail(o), lname)
         IN IF LowerCase(o[1][1]) # lname THEN rest
            ELSE IF IsNull(rest) THEN Some(o[1][2])
            ELSE Some(o[1][2] \o ", " \o Val(rest))

(***************************************************************************)
(* Payload, body and signature.                                            *)
(***************************************************************************)
\* A payload stamped with the time of the triggering call whenever it is built.
NewPayloadAtTrigger(webhook, eventType, data, now) ==
    [event |-> eventType, timestamp |-> 0, data |-> data, webhookId |-> webhook.id]

\* The WebhookPayload deliverWebhook builds; `now` is what new Date() reads.
NewPayload(webhook, eventType, data, now) ==
    [event |-> eventType, timestamp |-> now, data |-> data, webhookId |-> webhook.id]

\* JSON.stringify of a WebhookPayload.
JSONStringify(payload) ==
    "{event:" \o payload.event \o ",timestamp:" \o ToString(payload.timestamp)
        \o ",data:" \o payload.data \o ",webhookId:" \o payload.webhookId \o "}"

\* crypto.createHmac("sha256", secret).update(message).digest("hex")
HmacSha256Hex(secret, message) == "hmac(" \o secret \o "," \o message \o ")"

GenerateSignature(payload, secret) ==
    "sha256=" \o HmacSha256Hex(secret, JSONStringify(payload))

\* crypto.randomUUID(): a value no other invocation gets; `p` is the pipeline
\* and `attempt` the invocation within it.
RandomUUID(p, attempt) == "uuid-" \o ToString(p) \o "-" \o ToString(attempt)

\* The headers object of one attempt.
BuildHeaders(webhook, eventType, payload, uuid) ==
    LET defaults == << <<"Content-Type", "application/json">>,
                       <<"User-Agent", "VideoHub-Webhook/1.0">>,
                       <<"X-Webhook-Event", eventType>>,
                       <<"X-Webhook-Delivery-ID", uuid>> >>
        custom == IF IsNull(webhook.headers) THEN <<>> ELSE Val(webhook.headers)
        merged == ObjSpread(defaults, custom)
    IN IF TruthyString(webhook.secret)
       THEN ObjSet(merged, "X-Webhook-Signature",
                   GenerateSignature(payload, Val(webhook.secret)))
       ELSE merged

\* The POST handed to fetch().
NewRequest(p, webhook, eventType, payload, attempt) ==
    [pipeline |-> p, attempt |-> attempt, url |-> webhook.url,
     headers |-> BuildHeaders(webhook, eventType, payload, RandomUUID(p, attempt)),
     body |-> JSONStringify(payload)]

(***************************************************************************)
(* Retry policy.                                                           *)
(***************************************************************************)
\* response.ok
ResponseOk(status) == status \in 200..299

\* `webhook.retryCount || 3`
RetryLimit(webhook) ==
    IF TruthyNumber(webhook.retryCount) THEN Val(webhook.retryCount)
    ELSE DefaultRetryCount

\* The condition of the retry after a response was recorded.
RetryAfterResponse(success, attempt, webhook) ==
    ~success /\ attempt < RetryLimit(webhook)

\* The condition of the retry in the catch block.
RetryAfterError(attempt, webhook) == attempt < RetryLimit(webhook)

\* A retry with no delay at all.
NoBackoffDelay(attempt) == 0

\* Math.pow(2, attempt) * 1000
BackoffDelay(attempt) == (BackoffBase ^ attempt) * BackoffUnitMs

(***************************************************************************)
(* The tables.                                                             *)
(***************************************************************************)
WebhookRow(id, userId, active, events, secret, headers, retryCount) ==
    [id |-> id, name |-> "hook " \o id, url |-> "https://hooks.example/" \o id,
     userId |-> userId, active |-> active, events |-> events, secret |-> secret,
     description |-> Null, headers |-> headers, retryCount |-> retryCount,
     updatedAt |-> 0]

\* The longest response body and the longest catch-block error message stored.
BodyLimit == 5000
ErrorLimit == 5000

\* text.slice(0, n)
Slice(text, n) == IF Len(text) <= n THEN text ELSE SubSeq(text, 1, n)

\* A text of n characters.
RECURSIVE Pad(_)
Pad(n) ==
    IF n = 0 THEN ""
    ELSE IF n % 2 = 0 THEN Pad(n \div 2) \o Pad(n \div 2)
    ELSE "x" \o Pad(n - 1)

\* What fetch() resolves with, and the time it took: the status line, and the
\* body (Null when reading it fails).
HttpResponse(status, statusText, body, elapsed) ==
    [status |-> status, statusText |-> statusText, body |-> body,
     elapsed |-> elapsed]

\* A response with an empty reason phrase and an empty body, at once.
BareResponse(status) == HttpResponse(status, "", Some(""), 0)

\* await response.text().catch(() => "")
ResponseText(response) ==
    IF IsNull(response.body) THEN "" ELSE Val(response.body)

\* The row the try block inserts once a response has arrived.  createdAt is
\* the store's clock at the insert.
ResponseRow(p, webhook, eventType, payload, attempt, response) ==
    [pipeline |-> p, webhookId |-> webhook.id, eventType |-> eventType,
     payload |-> payload, responseStatus |-> Some(response.status),
     responseBody |-> Some(Slice(ResponseText(response), BodyLimit)),
     duration |-> Some(response.elapsed),
     success |-> IF ResponseOk(response.status) THEN 1 ELSE 0,
     attempt |-> attempt,
     error |-> IF ResponseOk(response.status) THEN Null
               ELSE Some("HTTP " \o ToString(response.status) \o ": "
                         \o response.statusText),
     createdAt |-> payload.timestamp + response.elapsed]

\* The row the catch block inserts.
ErrorRow(p, webhook, eventType, payload, attempt, errorMessage, elapsed) ==
    [pipeline |-> p, webhookId |-> webhook.id, eventType |-> eventType,
     payload |-> payload, responseStatus |-> Null, responseBody |-> Null,
     duration |-> Some(elapsed), success |-> 0, attempt |-> attempt,
     error |-> Some(Slice(errorMessage, ErrorLimit)),
     createdAt |-> payload.timestamp + elapsed]

\* A store that takes any row.
NoForeignKey(table, row) == TRUE

\* webhook_deliveries.webhook_id references webhooks.id: the store takes a
\* row only while its webhook exists.
ForeignKeyHolds(table, row) == \E w \in table : w.id = row.webhookId

\* A write that replaces the row the pipeline wrote before.
ReplaceDelivery(table, row) ==
    {d \in table : d.pipeline # row.pipeline} \cup {row}

\* db.insert(webhookDeliveries).values(row)
InsertDelivery(table, row) == table \cup {row}

\* A delete of a webhooks row that leaves webhook_deliveries alone.
NoCascade(table, id) == table

\* ON DELETE CASCADE of webhook_deliveries.webhook_id: what is left of
\* webhook_deliveries when the webhooks row `id` is deleted.
Cascade(table, id) == {d \in table : d.webhookId # id}

\* select from webhook_deliveries where webhook_id = id
ListRecent(table, id) == {d \in table : d.webhookId = id}

(***************************************************************************)
(* getDeliveryStats.  A rate is held in hundredths of a percent, which is  *)
(* what Math.round(successRate * 100) computes before the division by 100. *)
(***************************************************************************)
\* The most rows a stats read takes.
StatsLimit == 1000

\* A select that ignores its limit.
SelectAll(rows, limit) == {rows}

\* The rows left when the k oldest are dropped.  Rows created at the same
\* time have no order between them, so that when only some of them are to be
\* dropped any of them may be.
RECURSIVE DropOldest(_, _)
DropOldest(rows, k) ==
    IF k <= 0 THEN {rows}
    ELSE LET times == {d.createdAt : d \in rows}
             oldest == CHOOSE t \in times : \A u \in times : t <= u
             ties == {d \in rows : d.createdAt = oldest}
         IN IF Cardinality(ties) <= k
            THEN DropOldest(rows \ ties, k - Cardinality(ties))
            ELSE {rows \ gone : gone \in {x \in SUBSET ties : Cardinality(x) = k}}

\* orderBy(desc(createdAt)).limit(limit): every result the store may give.
SelectRecent(rows, limit) == DropOldest(rows, Cardinality(rows) - limit)

\* Math.round(num / den) for num >= 0 and den > 0: halves round up.
MathRound(num, den) == (2 * num + den) \div (2 * den)

\* A rate that is 100% whenever nothing failed.
FailureFreeRate(successful, total) ==
    IF successful = total THEN 10000 ELSE MathRound(successful * 10000, total)

\* Math.round((total > 0 ? (successful / total) * 100 : 0) * 100)
SuccessRate(successful, total) ==
    IF total > 0 THEN MathRound(successful * 10000, total) ELSE 0

\* d.duration || 0
DurationOf(d) == IF TruthyNumber(d.duration) THEN Val(d.duration) ELSE 0

\* deliveries.reduce((sum, d) => sum + (d.duration || 0), 0)
RECURSIVE SumOver(_, _)
SumOver(values, rows) ==
    IF values = {} THEN 0
    ELSE LET v == CHOOSE x \in values : TRUE
         IN v * Cardinality({d \in rows : DurationOf(d) = v})
            + SumOver(values \ {v}, rows)
SumDurations(rows) == SumOver({DurationOf(d) : d \in rows}, rows)

\* Math.round(sum / (total || 1))
AvgDuration(sum, total) == MathRound(sum, IF total # 0 THEN total ELSE 1)

\* What getDeliveryStats returns for the rows its select gave.
DeliveryStats(rows) ==
    LET total == Cardinality(rows)
        successful == Cardinality({d \in rows : d.success = 1})
    IN [total |-> total, successful |-> successful,
        failed |-> total - successful,
        successRate |-> SuccessRate(successful, total),
        avgDuration |-> AvgDuration(SumDurations(rows), total)]

\* getDeliveryStats(id): every value the read may return.
GetDeliveryStats(table, id) ==
    {DeliveryStats(rows) :
        rows \in SelectRecent({d \in table : d.webhookId = id}, StatsLimit)}

\* The select without its tenant condition.
ActiveWebhooksAnyTenant(table, userId) == {w \in table : w.active = 1}

\* The select of triggerEvent: active = 1 AND user_id = userId.
ActiveWebhooks(table, userId) ==
    {w \in table : w.active = 1 /\ w.userId = userId}

\* activeWebhooks.filter(webhook => events.includes(eventType))
MatchingWebhooks(rows, eventType) == {w \in rows : eventType \in w.events}

\* The orders in which a select without ORDER BY may return `rows`.
RowOrders(rows) ==
    {s \in [1..Cardinality(rows) -> rows] :
        \A i, j \in 1..Cardinality(rows) : i # j => s[i] # s[j]}

VARIABLES
    webhooks,    \* the webhooks table: a set of rows
    deliveries,  \* the webhook_deliveries table: a set of rows
    call,        \* the triggerEvent call
    pipelines,   \* the deliverWebhook pipelines, in the order they were started
    requests,    \* the POSTs handed to fetch()
    logs,        \* the entries WebhookService has handed to the logger: a bag
    reply        \* the last response an admin route has sent

vars == <<webhooks, deliveries, call, pipelines, requests, logs, reply>>

(***************************************************************************)
(* Initial tables.  A row is what the admin routes can have stored; the    *)
(* table is drawn from three families, each varying the columns one part   *)
(* of the service reads, and one table with two retrying subscriptions of  *)
(* the same tenant.                                                        *)
(***************************************************************************)
EventSets == {{}, {"video.deleted"}, {"folder.created"}, EventTypes}
RetryCounts == {Null} \cup {Some(n) : n \in -1..MaxRetryCount}
Secrets == {Null, Some(""), Some("k1")}
HeaderConfigs ==
    {Null, Some(<<>>),
     Some(<< <<"X-Custom", "v">> >>),
     Some(<< <<"X-Webhook-Signature", "sha256=forged">> >>),
     Some(<< <<"x-webhook-signature", "sha256=forged">> >>),
     Some(<< <<"X-Webhook-Delivery-ID", "fixed">> >>)}

\* Owner, active flag and events vary: what the dispatcher selects on.
DispatchRows(id) ==
    {WebhookRow(id, u, a, ev, Null, Null, Some(1)) :
        u \in Tenants, a \in {0, 1}, ev \in EventSets}
\* The retry count varies: what the retry scheduler reads.
RetryRows(id) ==
    {WebhookRow(id, "tX", 1, EventTypes, Null, Null, rc) : rc \in RetryCounts}
\* Secret and custom headers vary: what the request builder reads.
SigningRows(id) ==
    {WebhookRow(id, "tX", 1, EventTypes, s, h, Some(2)) :
        s \in Secrets, h \in HeaderConfigs}

InitialTables ==
    {{r1, r2} : r1 \in DispatchRows("w1"), r2 \in DispatchRows("w2")}
    \cup {{r1} : r1 \in RetryRows("w1")}
    \cup {{WebhookRow("w1", "tX", 1, EventTypes, Null, Null, Some(2)),
           WebhookRow("w2", "tX", 1, EventTypes, Null, Null, Some(1))}}
    \cup {{r1} : r1 \in SigningRows("w1")}

IdleCall == [state |-> "idle", eventType |-> "", data |-> "", userId |-> ""]

\* No admin route has answered yet.
NoReply ==
    [received |-> 0, seq |-> 0, op |-> "", id |-> "", userId |-> "", status |-> 0,
     body |-> {}]

Init ==
    /\ webhooks \in InitialTables
    /\ deliveries = {}
    /\ call = IdleCall
    /\ pipelines = <<>>
    /\ requests = {}
    /\ logs = EmptyBag
    /\ reply = NoReply

(***************************************************************************)
(* One deliverWebhook invocation.  pc is where it stands:                  *)
(*   "fetching"        awaiting fetch()                                    *)
(*   "inserting"       a response arrived; awaiting the insert of the try  *)
(*                     block                                               *)
(*   "catchInserting"  in the catch block; awaiting its insert             *)
(*   "backoff"         returned, with the timer of the next attempt armed  *)
(*   "done"            returned, no timer armed                            *)
(*   "rejected"        the insert of the catch block threw: the promise    *)
(*                     of the invocation is rejected, no timer armed       *)
(* outcomes is the history of what fetch() gave, one entry per attempt (a  *)
(* status, or 0 when fetch() rejected); the code keeps no such history.    *)
(* origin is the caller of the first invocation (triggerEvent or           *)
(* testWebhook) and waiter the admin request that awaits it, if any.       *)
(***************************************************************************)
Invocation(webhook, eventType, data, attempt, now, outcomes) ==
    [webhook |-> webhook, eventType |-> eventType, data |-> data,
     attempt |-> attempt, pc |-> "fetching",
     payload |-> NewPayload(webhook, eventType, data, now),
     response |-> Null, error |-> Null, elapsed |-> 0, timer |-> 0,
     outcomes |-> outcomes,
     origin |-> "triggerEvent", waiter |-> Null]

\* A loop that awaits each deliverWebhook before it calls the next: while the
\* first delivery is in flight no other has been started.
DeliveryPromisesInTurn(order, eventType, data) ==
    [i \in 1..(IF Len(order) = 0 THEN 0 ELSE 1) |->
        Invocation(order[i], eventType, data, 1, 0, <<>>)]

\* matchingWebhooks.map(webhook => this.deliverWebhook(webhook, eventType, data)):
\* every invocation is called, and runs up to its fetch(), before any is awaited.
DeliveryPromises(order, eventType, data) ==
    [i \in 1..Len(order) |-> Invocation(order[i], eventType, data, 1, 0, <<>>)]

\* The pipelines whose first invocation triggerEvent holds the promise of.
TriggerPipelines(pls) == SelectSeq(pls, LAMBDA pl : pl.origin = "triggerEvent")

\* The first invocation of a pipeline, the one whose promise triggerEvent
\* holds, has settled.
FirstSettled(pl) == pl.attempt > 1 \/ pl.pc \in {"backoff", "done", "rejected"}
FirstRejected(pl) == pl.attempt = 1 /\ pl.pc = "rejected"

\* The promises are not awaited at all.
NoneAwaited(pls) == TRUE

\* Promise.allSettled(deliveryPromises) has resolved.
AllSettled(pls) == \A i \in 1..Len(pls) : FirstSettled(pls[i])

\* How an await of Promise.all outside the try block would end.
AwaitAllOutcome(pls) ==
    IF \E i \in 1..Len(pls) : FirstRejected(pls[i]) THEN "raised" ELSE "returned"

\* How `await Promise.allSettled(...)` ends for triggerEvent: it never rejects.
AwaitOutcome(pls) == "returned"

\* How the catch block of triggerEvent ends: it logs and swallows the error.
CatchOutcome == "returned"

\* What the end of an invocation leaves: the timer armed, or nothing.
Scheduled(pl, retry) ==
    [pl EXCEPT !.pc = IF retry THEN "backoff" ELSE "done",
               !.timer = IF retry THEN BackoffDelay(pl.attempt) ELSE 0,
               !.response = Null, !.error = Null, !.elapsed = 0]

\* The time of the first invocation of the pipeline, whatever the attempt.
TriggerTime(pl) == 0

\* What new Date() reads in the invocation the timer starts: the timer was
\* armed no earlier than the payload of the previous invocation was built,
\* and fires no earlier than its delay later.
RetryTime(pl) == pl.payload.timestamp + pl.timer

\* The webhook object a re-read of the table at the time of the retry would give.
WebhookReadAgain(pl, table) ==
    IF \E w \in table : w.id = pl.webhook.id
    THEN CHOOSE w \in table : w.id = pl.webhook.id
    ELSE pl.webhook

\* The webhook object the timer callback passes to deliverWebhook: the one its
\* closure holds, which is the row read when the pipeline was started.
TimerWebhook(pl, table) == pl.webhook

(***************************************************************************)
(* Log entries.  `p` is the pipeline and `attempt` the invocation that     *)
(* logs; both are 0 for an entry of triggerEvent.                          *)
(***************************************************************************)
LogEntry(level, message, p, attempt) ==
    [level |-> level, message |-> message, pipeline |-> p, attempt |-> attempt]

\* triggerEvent after the filter.
TriggeringLogs(n, eventType) ==
    SetToBag({LogEntry("info", "Triggering " \o ToString(n) \o " webhooks for event: "
                                   \o eventType, 0, 0)})

\* The catch block of triggerEvent logs nothing.
LookupFailureUnlogged == EmptyBag

\* The catch block of triggerEvent.
LookupFailureLogs ==
    SetToBag({LogEntry("error", "Failed to trigger webhooks", 0, 0)})

\* The try block of deliverWebhook after its insert.
TryLogs(p, attempt, retry) ==
    SetToBag((IF retry
              THEN {LogEntry("warn", "Webhook delivery failed, retrying", p, attempt)}
              ELSE {})
             \cup {LogEntry("info", "Webhook delivered successfully", p, attempt)})

\* The catch block of deliverWebhook after its insert.
CatchLogs(p, attempt, retry) ==
    SetToBag({IF retry
              THEN LogEntry("warn", "Webhook delivery error, retrying", p, attempt)
              ELSE LogEntry("error", "Webhook delivery failed after all retries",
                            p, attempt)})

(***************************************************************************)
(* Actions.                                                                *)
(***************************************************************************)
\* triggerEvent is called and issues its select.
TriggerEvent(eventType, data, userId) ==
    /\ call.state = "idle"
    /\ call' = [state |-> "lookup", eventType |-> eventType, data |-> data,
                userId |-> userId]
    /\ UNCHANGED <<webhooks, deliveries, pipelines, requests, logs, reply>>

\* The select returns: filter, then one deliverWebhook per matching row, each
\* running up to its fetch(); triggerEvent then awaits allSettled.
LookupResolved ==
    /\ call.state = "lookup"
    /\ \E order \in RowOrders(MatchingWebhooks(ActiveWebhooks(webhooks, call.userId),
                                               call.eventType)) :
          LET started == DeliveryPromises(order, call.eventType, call.data)
          IN /\ pipelines' = pipelines \o started
             /\ requests' = requests \cup
                   {NewRequest(Len(pipelines) + i, started[i].webhook,
                               started[i].eventType, started[i].payload, 1) :
                       i \in 1..Len(started)}
             /\ logs' = logs (+) TriggeringLogs(Len(order), call.eventType)
    /\ call' = [call EXCEPT !.state = "awaiting"]
    /\ UNCHANGED <<webhooks, deliveries, reply>>

\* The select throws: the catch block of triggerEvent.
LookupRejected ==
    /\ call.state = "lookup"
    /\ call' = [call EXCEPT !.state = CatchOutcome]
    /\ logs' = logs (+) LookupFailureLogs
    /\ UNCHANGED <<webhooks, deliveries, pipelines, requests, reply>>

\* allSettled resolves and triggerEvent ends.
TriggerReturn ==
    /\ call.state = "awaiting"
    /\ AllSettled(TriggerPipelines(pipelines))
    /\ call' = [call EXCEPT !.state = AwaitOutcome(TriggerPipelines(pipelines))]
    /\ UNCHANGED <<webhooks, deliveries, pipelines, requests, logs, reply>>

\* fetch() resolves with a response; its body is read, then the insert of the
\* try block is issued.
FetchResolved(p, response) ==
    /\ pipelines[p].pc = "fetching"
    /\ pipelines' = [pipelines EXCEPT ![p].pc = "inserting",
                                      ![p].response = Some(response),
                                      ![p].elapsed = response.elapsed,
                                      ![p].outcomes = Append(@, response.status)]
    /\ UNCHANGED <<webhooks, deliveries, call, requests, logs, reply>>

\* fetch() rejects: the catch block issues its insert.
FetchRejected(p, message, elapsed) ==
    /\ pipelines[p].pc = "fetching"
    /\ pipelines' = [pipelines EXCEPT ![p].pc = "catchInserting",
                                      ![p].error = Some(message),
                                      ![p].elapsed = elapsed,
                                      ![p].outcomes = Append(@, 0)]
    /\ UNCHANGED <<webhooks, deliveries, call, requests, logs, reply>>

\* The insert of the try block succeeds; the retry is decided.
InsertResolved(p) ==
    LET pl == pipelines[p]
        row == ResponseRow(p, pl.webhook, pl.eventType, pl.payload, pl.attempt,
                           Val(pl.response))
        retry == RetryAfterResponse(ResponseOk(Val(pl.response).status),
                                    pl.attempt, pl.webhook)
    IN /\ pl.pc = "inserting"
       /\ ForeignKeyHolds(webhooks, row)
       /\ deliveries' = InsertDelivery(deliveries, row)
       /\ pipelines' = [pipelines EXCEPT ![p] = Scheduled(pl, retry)]
       /\ logs' = logs (+) TryLogs(p, pl.attempt, retry)
       /\ UNCHANGED <<webhooks, call, requests, reply>>

\* The insert of the try block throws: control passes to the catch block.
InsertRejected(p) ==
    /\ pipelines[p].pc = "inserting"
    /\ pipelines' = [pipelines EXCEPT ![p].pc = "catchInserting",
                                      ![p].response = Null,
                                      ![p].error = Some(InsertError)]
    /\ UNCHANGED <<webhooks, deliveries, call, requests, logs, reply>>

\* The insert of the catch block succeeds; the retry is decided.
CatchInsertResolved(p) ==
    LET pl == pipelines[p]
        row == ErrorRow(p, pl.webhook, pl.eventType, pl.payload, pl.attempt,
                        Val(pl.error), pl.elapsed)
        retry == RetryAfterError(pl.attempt, pl.webhook)
    IN /\ pl.pc = "catchInserting"
       /\ ForeignKeyHolds(webhooks, row)
       /\ deliveries' = InsertDelivery(deliveries, row)
       /\ pipelines' = [pipelines EXCEPT ![p] = Scheduled(pl, retry)]
       /\ logs' = logs (+) CatchLogs(p, pl.attempt, retry)
       /\ UNCHANGED <<webhooks, call, requests, reply>>

\* The insert of the catch block throws: deliverWebhook rejects.
CatchInsertRejected(p) ==
    /\ pipelines[p].pc = "catchInserting"
    /\ pipelines' = [pipelines EXCEPT ![p].pc = "rejected", ![p].error = Null]
    /\ UNCHANGED <<webhooks, deliveries, call, requests, logs, reply>>

\* The timer fires: deliverWebhook(webhook, eventType, data, attempt + 1) runs
\* up to its fetch().
TimerFired(p) ==
    LET pl == pipelines[p]
        next == [Invocation(TimerWebhook(pl, webhooks), pl.eventType, pl.data,
                            pl.attempt + 1, RetryTime(pl), pl.outcomes)
                 EXCEPT !.origin = pl.origin, !.waiter = pl.waiter]
    IN /\ pl.pc = "backoff"
       /\ pipelines' = [pipelines EXCEPT ![p] = next]
       /\ requests' = requests \cup
             {NewRequest(p, next.webhook, next.eventType, next.payload, next.attempt)}
       /\ UNCHANGED <<webhooks, deliveries, call, logs, reply>>

Next ==
    \/ \E e \in EventTypes, d \in EventData, u \in Tenants : TriggerEvent(e, d, u)
    \/ LookupResolved
    \/ LookupRejected
    \/ TriggerReturn
    \/ \E p \in 1..Len(pipelines), status \in Statuses : FetchResolved(p, BareResponse(status))
    \/ \E p \in 1..Len(pipelines), message \in FetchErrors : FetchRejected(p, message, 0)
    \/ \E p \in 1..Len(pipelines) : InsertResolved(p)
    \/ \E p \in 1..Len(pipelines) : InsertRejected(p)
    \/ \E p \in 1..Len(pipelines) : CatchInsertResolved(p)
    \/ \E p \in 1..Len(pipelines) : CatchInsertRejected(p)
    \/ \E p \in 1..Len(pipelines) : TimerFired(p)

Spec == Init /\ [][Next]_vars

(***************************************************************************)
(* The admin routes of /api/admin/webhooks.  A request is handled in one   *)
(* step, its database statements not interleaved with other steps; only    *)
(* the test route, which awaits a delivery, answers in a later step.       *)
(* reply.received counts the requests received, reply.seq is the request   *)
(* the last response answers.                                              *)
(***************************************************************************)
\* Requests the admin routes receive in one behaviour.
MaxAdminRequests == 2

\* The :id of a request: a stored subscription, or an id that is not stored.
RouteIds == WebhookIds \cup {"w3"}
\* What gen_random_uuid() gives the row of a created subscription.
NewWebhookId == "w3"
\* crypto.randomBytes(32).toString("hex")
GeneratedSecret == "generated-secret"
\* Whether the store answers the statements of a request or throws.
StoreAnswers == {"ok", "throws"}

\* new URL(url) does not throw.
ParsesAsUrl(url) == url \notin {"", "not a url"}

\* A request body: a field is Null when the body does not have it.
Body(name, url, secret, events, active, headers, retryCount) ==
    [name |-> name, url |-> url, secret |-> secret, events |-> events,
     active |-> active, description |-> Null, headers |-> headers,
     retryCount |-> retryCount]

\* Bodies of POST /: one that is complete, and one for each check it can fail.
CreateBodies ==
    {Body(Some("n"), Some("https://new.example/hook"), Null,
          Some({"video.deleted"}), Null, Null, Null),
     Body(Null, Some("https://new.example/hook"), Null,
          Some({"video.deleted"}), Null, Null, Null),
     Body(Some("n"), Some("not a url"), Null, Some({"video.deleted"}), Null, Null, Null),
     Body(Some("n"), Some("https://new.example/hook"), Null, Some({}), Null, Null, Null)}

\* Bodies of PATCH /:id: every column at once, a new name only, and the
\* values a create would refuse.
UpdateBodies ==
    {Body(Null, Some("https://new.example/hook"), Some("k2"),
          Some({"folder.created"}), Some(FALSE),
          Some(<< <<"X-Custom", "v2">> >>), Some(1)),
     Body(Some("renamed"), Null, Null, Null, Null, Null, Null),
     Body(Null, Some("not a url"), Null, Null, Null, Null, Null),
     Body(Null, Some(""), Null, Null, Null, Null, Null),
     Body(Null, Null, Null, Some({}), Null, Null, Null)}

\* The row with the given id; the routes call it only when there is one.
RowById(table, id) == CHOOSE w \in table : w.id = id

\* The /:id routes without their ownership check.
GuardWithoutOwner(table, id, userId, store) ==
    IF userId = "" THEN 401
    ELSE IF store = "throws" THEN 500
    ELSE IF ~\E w \in table : w.id = id THEN 404
    ELSE 200

\* What every /:id route does first: 401 without a user, then the select by id
\* (500 when it throws), 404 without a row, 403 for a row of another tenant.
Guard(table, id, userId, store) ==
    IF userId = "" THEN 401
    ELSE IF store = "throws" THEN 500
    ELSE IF ~\E w \in table : w.id = id THEN 404
    ELSE IF RowById(table, id).userId # userId THEN 403
    ELSE 200

\* The checks of POST / on its body.
CreateStatus(userId, body, store) ==
    IF userId = "" THEN 401
    ELSE IF \/ ~TruthyString(body.name) \/ ~TruthyString(body.url)
            \/ IsNull(body.events) \/ Val(body.events) = {} THEN 400
    ELSE IF ~ParsesAsUrl(Val(body.url)) THEN 400
    ELSE IF store = "throws" THEN 500
    ELSE 201

\* An insert that stores the secret as the request gave it.
CreatedRowAsSent(id, userId, body) ==
    [WebhookRow(id, userId, 1, Val(body.events), body.secret, body.headers,
                body.retryCount)
     EXCEPT !.name = Val(body.name), !.url = Val(body.url),
            !.description = body.description]

\* The row POST / inserts.
CreatedRow(id, userId, body) ==
    [WebhookRow(id, userId, 1, Val(body.events),
                IF TruthyString(body.secret) THEN body.secret
                ELSE Some(GeneratedSecret),
                body.headers,
                IF TruthyNumber(body.retryCount) THEN body.retryCount
                ELSE Some(DefaultRetryCount))
     EXCEPT !.name = Val(body.name), !.url = Val(body.url),
            !.description = body.description]

\* The checks of PATCH /:id: the guard, then new URL(url) when url is truthy.
UpdateStatus(table, id, userId, body, store) ==
    IF Guard(table, id, userId, store) # 200 THEN Guard(table, id, userId, store)
    ELSE IF TruthyString(body.url) /\ ~ParsesAsUrl(Val(body.url)) THEN 400
    ELSE 200

\* An update that writes every column of the body, supplied or not.
ReplacedRow(w, body) ==
    [w EXCEPT
        !.name = IF IsNull(body.name) THEN @ ELSE Val(body.name),
        !.url = IF IsNull(body.url) THEN @ ELSE Val(body.url),
        !.secret = body.secret,
        !.events = IF IsNull(body.events) THEN @ ELSE Val(body.events),
        !.active = IF IsNull(body.active) THEN @
                   ELSE IF Val(body.active) THEN 1 ELSE 0,
        !.description = body.description,
        !.headers = body.headers,
        !.retryCount = body.retryCount,
        !.updatedAt = @ + 1]

\* The row after PATCH /:id: every field of the body that is not undefined
\* replaces the column, and updatedAt (counted in updates) is set anew.
UpdatedRow(w, body) ==
    [w EXCEPT
        !.updatedAt = @ + 1,
        !.name = IF IsNull(body.name) THEN @ ELSE Val(body.name),
        !.url = IF IsNull(body.url) THEN @ ELSE Val(body.url),
        !.secret = IF IsNull(body.secret) THEN @ ELSE body.secret,
        !.events = IF IsNull(body.events) THEN @ ELSE Val(body.events),
        !.active = IF IsNull(body.active) THEN @
                   ELSE IF Val(body.active) THEN 1 ELSE 0,
        !.description = IF IsNull(body.description) THEN @ ELSE body.description,
        !.headers = IF IsNull(body.headers) THEN @ ELSE body.headers,
        !.retryCount = IF IsNull(body.retryCount) THEN @ ELSE body.retryCount]

\* The response to the request numbered seq.
Response(seq, op, id, userId, status, body) ==
    [received |-> reply.received, seq |-> seq, op |-> op, id |-> id,
     userId |-> userId, status |-> status, body |-> body]

\* The response to a request received and answered in the same step.
Answer(op, id, userId, status, body) ==
    [Response(reply.received + 1, op, id, userId, status, body)
     EXCEPT !.received = reply.received + 1]

\* The rows GET / returns: those of the caller.
OwnWebhooks(table, userId) == {w \in table : w.userId = userId}

\* GET /
AdminList(userId, store) ==
    LET status == IF userId = "" THEN 401 ELSE IF store = "throws" THEN 500 ELSE 200
    IN /\ reply.received < MaxAdminRequests
       /\ reply' = Answer("list", "", userId, status,
                          IF status = 200 THEN OwnWebhooks(webhooks, userId) ELSE {})
       /\ UNCHANGED <<webhooks, deliveries, call, pipelines, requests, logs>>

\* POST /
AdminCreate(userId, body, store) ==
    LET status == CreateStatus(userId, body, store)
        row == CreatedRow(NewWebhookId, userId, body)
    IN /\ reply.received < MaxAdminRequests
       /\ status = 201 =>
             /\ \A w \in webhooks : w.id # NewWebhookId
             /\ \A i \in 1..Len(pipelines) : pipelines[i].webhook.id # NewWebhookId
       /\ webhooks' = IF status = 201 THEN webhooks \cup {row} ELSE webhooks
       /\ reply' = Answer("create", "", userId, status,
                          IF status = 201 THEN {row} ELSE {})
       /\ UNCHANGED <<deliveries, call, pipelines, requests, logs>>

\* GET /:id
AdminGet(id, userId, store) ==
    LET status == Guard(webhooks, id, userId, store)
    IN /\ reply.received < MaxAdminRequests
       /\ \/ /\ status # 200
             /\ reply' = Answer("get", id, userId, status, {})
          \/ /\ status = 200
             /\ \E stats \in GetDeliveryStats(deliveries, id) :
                   reply' = Answer("get", id, userId, status,
                                   {[webhook |-> RowById(webhooks, id),
                                     stats |-> stats]})
       /\ UNCHANGED <<webhooks, deliveries, call, pipelines, requests, logs>>

\* PATCH /:id
AdminUpdate(id, userId, body, store) ==
    LET status == UpdateStatus(webhooks, id, userId, body, store)
        row == UpdatedRow(RowById(webhooks, id), body)
    IN /\ reply.received < MaxAdminRequests
       /\ webhooks' = IF status = 200
                      THEN (webhooks \ {RowById(webhooks, id)}) \cup {row}
                      ELSE webhooks
       /\ reply' = Answer("update", id, userId, status,
                          IF status = 200 THEN {row} ELSE {})
       /\ UNCHANGED <<deliveries, call, pipelines, requests, logs>>

\* DELETE /:id; the rows of webhook_deliveries go with the row (ON DELETE
\* CASCADE).
AdminDelete(id, userId, store) ==
    LET status == IF Guard(webhooks, id, userId, store) = 200 THEN 204
                  ELSE Guard(webhooks, id, userId, store)
    IN /\ reply.received < MaxAdminRequests
       /\ webhooks' = IF status = 204 THEN {w \in webhooks : w.id # id} ELSE webhooks
       /\ deliveries' = IF status = 204 THEN Cascade(deliveries, id) ELSE deliveries
       /\ reply' = Answer("delete", id, userId, status, {})
       /\ UNCHANGED <<call, pipelines, requests, logs>>

\* The data of the synthetic event of testWebhook.
TestData == "This is a test webhook delivery"

\* A select that takes the first row of the table.
FirstWebhook(table, id) == CHOOSE w \in table : TRUE

\* The select of testWebhook: the row with the given id, whatever its active
\* flag and its events.
TestedWebhook(table, id) == RowById(table, id)

\* POST /:id/test: after the guard, testWebhook selects the row and awaits
\* deliverWebhook(row, "webhook.test", ...), which runs up to its fetch().
AdminTest(id, userId, store) ==
    LET status == Guard(webhooks, id, userId, store)
        started == [Invocation(TestedWebhook(webhooks, id), "webhook.test",
                               TestData, 1, 0, <<>>)
                    EXCEPT !.origin = "testWebhook",
                           !.waiter = Some(reply.received + 1)]
    IN /\ reply.received < MaxAdminRequests
       /\ IF status = 200
          THEN /\ pipelines' = Append(pipelines, started)
               /\ requests' = requests \cup
                     {NewRequest(Len(pipelines) + 1, started.webhook,
                                 started.eventType, started.payload, 1)}
               /\ reply' = [reply EXCEPT !.received = @ + 1]
          ELSE /\ reply' = Answer("test", id, userId, status, {})
               /\ UNCHANGED <<pipelines, requests>>
       /\ UNCHANGED <<webhooks, deliveries, call, logs>>

\* What testWebhook returns once the deliverWebhook it awaits has settled.
TestResult(pl) ==
    IF FirstRejected(pl) THEN [success |-> FALSE, message |-> InsertError]
    ELSE [success |-> TRUE, message |-> "Test webhook delivered successfully"]

\* The deliverWebhook that testWebhook awaits settles: the route answers.
AdminTestReturn(p) ==
    LET pl == pipelines[p]
    IN /\ ~IsNull(pl.waiter)
       /\ FirstSettled(pl)
       /\ reply' = Response(Val(pl.waiter), "test", pl.webhook.id, pl.webhook.userId,
                            200, {TestResult(pl)})
       /\ pipelines' = [pipelines EXCEPT ![p].waiter = Null]
       /\ UNCHANGED <<webhooks, deliveries, call, requests, logs>>

\* GET /:id/deliveries
AdminDeliveries(id, userId, store) ==
    LET status == Guard(webhooks, id, userId, store)
    IN /\ reply.received < MaxAdminRequests
       /\ reply' = Answer("deliveries", id, userId, status,
                          IF status = 200 THEN ListRecent(deliveries, id) ELSE {})
       /\ UNCHANGED <<webhooks, deliveries, call, pipelines, requests, logs>>

\* req.user?.claims?.sub of the admin requests: tenant X, or "" when the
\* request is unauthenticated.
Callers == {"tX", ""}

\* Two tenants with one subscription each; w1, of tenant X, is signed.
AdminTable(retryCount) ==
    {WebhookRow("w1", "tX", 1, EventTypes, Some("k1"), Null, retryCount),
     WebhookRow("w2", "tY", 1, EventTypes, Null, Null, Some(1))}

InitAdmin ==
    /\ webhooks = AdminTable(Some(1))
    /\ deliveries = {}
    /\ call = IdleCall
    /\ pipelines = <<>>
    /\ requests = {}
    /\ logs = EmptyBag
    /\ reply = NoReply

\* What the endpoints answer while the admin routes are exercised.
AdminStatuses == {200, 500}

\* The admin routes, called by tenant X or unauthenticated on the caller's
\* subscription, on another tenant's and on an id that is not stored, and the
\* deliveries the test route starts.
NextAdmin ==
    \/ \E u \in Callers, st \in StoreAnswers : AdminList(u, st)
    \/ \E u \in Callers, b \in CreateBodies, st \in StoreAnswers : AdminCreate(u, b, st)
    \/ \E id \in RouteIds, u \in Callers, st \in StoreAnswers : AdminGet(id, u, st)
    \/ \E id \in RouteIds, u \in Callers, b \in UpdateBodies, st \in StoreAnswers :
          AdminUpdate(id, u, b, st)
    \/ \E id \in RouteIds, u \in Callers, st \in StoreAnswers : AdminDelete(id, u, st)
    \/ \E id \in RouteIds, u \in Callers, st \in StoreAnswers : AdminTest(id, u, st)
    \/ \E p \in 1..Len(pipelines) : AdminTestReturn(p)
    \/ \E id \in RouteIds, u \in Callers, st \in StoreAnswers : AdminDeliveries(id, u, st)
    \/ \E p \in 1..Len(pipelines), status \in AdminStatuses : FetchResolved(p, BareResponse(status))
    \/ \E p \in 1..Len(pipelines) : FetchRejected(p, "fetch failed", 0)
    \/ \E p \in 1..Len(pipelines) : InsertResolved(p)
    \/ \E p \in 1..Len(pipelines) : InsertRejected(p)
    \/ \E p \in 1..Len(pipelines) : CatchInsertResolved(p)
    \/ \E p \in 1..Len(pipelines) : CatchInsertRejected(p)

SpecAdmin == InitAdmin /\ [][NextAdmin]_vars

\* The record of a delivery to w2 made before the behaviour starts.
PastDelivery ==
    ResponseRow(0, WebhookRow("w2", "tY", 1, EventTypes, Null, Null, Some(1)),
                "folder.created",
                [event |-> "folder.created", timestamp |-> 0, data |-> "d1",
                 webhookId |-> "w2"], 1, BareResponse(200))

\* The retry count of w1: two attempts, or unset (the default of three).
MidFlightRetryCounts == {Some(2), Null}

InitMidFlight ==
    /\ \E rc \in MidFlightRetryCounts : webhooks = AdminTable(rc)
    /\ deliveries = {PastDelivery}
    /\ call = IdleCall
    /\ pipelines = <<>>
    /\ requests = {}
    /\ logs = EmptyBag
    /\ reply = NoReply

\* A triggerEvent of tenant X and its pipeline, while tenant X reads, updates
\* or deletes the subscription the pipeline delivers to.
NextMidFlight ==
    \/ TriggerEvent("video.deleted", "d1", "tX")
    \/ LookupResolved
    \/ LookupRejected
    \/ TriggerReturn
    \/ \E p \in 1..Len(pipelines), status \in AdminStatuses : FetchResolved(p, BareResponse(status))
    \/ \E p \in 1..Len(pipelines) : FetchRejected(p, "fetch failed", 0)
    \/ \E p \in 1..Len(pipelines) : InsertResolved(p)
    \/ \E p \in 1..Len(pipelines) : InsertRejected(p)
    \/ \E p \in 1..Len(pipelines) : CatchInsertResolved(p)
    \/ \E p \in 1..Len(pipelines) : CatchInsertRejected(p)
    \/ \E p \in 1..Len(pipelines) : TimerFired(p)
    \/ \E b \in UpdateBodies : AdminUpdate("w1", "tX", b, "ok")
    \/ AdminDelete("w1", "tX", "ok")
    \/ AdminGet("w1", "tX", "ok")
    \/ AdminDeliveries("w1", "tX", "ok")

SpecMidFlight == InitMidFlight /\ [][NextMidFlight]_vars

(***************************************************************************)
(* The ledger.  A subscription with a history of deliveries receives test  *)
(* deliveries whose responses are long, unreadable or slow, and its owner  *)
(* reads its statistics.                                                   *)
(***************************************************************************)
\* The sizes of the histories: none, a few, one short of the stats limit and
\* one beyond it.
HistorySizes == {0, 3, StatsLimit - 1, StatsLimit + 1}

\* The status and the duration of the k-th delivery of a history, counted
\* from the newest.
HistoryStatus(k) == IF k % 2 = 0 THEN 500 ELSE 200
HistoryElapsed(k) == IF k % 4 = 1 THEN 26 ELSE 10

\* The record of the k-th delivery of a history of webhook w, created at `at`.
HistoryRow(k, w, at) ==
    ResponseRow(0 - k, w, "video.deleted",
                NewPayload(w, "video.deleted", "d1", at - HistoryElapsed(k)), 1,
                HttpResponse(HistoryStatus(k), "", Some(""), HistoryElapsed(k)))

\* A history of n deliveries of w, one per unit of time before the behaviour
\* starts; when `tied`, the two oldest were created at the same time.
History(w, n, tied) ==
    {HistoryRow(k, w, IF tied /\ k = n THEN 1 - n ELSE 0 - k) : k \in 1..n}

\* What the endpoint of a test delivery answers: a body longer than is
\* stored, and a body that cannot be read under a long reason phrase.
LedgerResponses ==
    {HttpResponse(200, "OK", Some(Pad(BodyLimit + 1)), 40),
     HttpResponse(500, Pad(ErrorLimit), Null, 70)}

\* The message of a fetch() that fails, longer than is stored.
LongFetchError == Pad(ErrorLimit + 1)

InitLedger ==
    /\ webhooks = AdminTable(Some(1))
    /\ \E n \in HistorySizes, tied \in BOOLEAN :
          /\ tied <=> n > StatsLimit
          /\ deliveries = History(RowById(webhooks, "w1"), n, tied)
                            \cup History(RowById(webhooks, "w2"), 2, FALSE)
    /\ call = IdleCall
    /\ pipelines = <<>>
    /\ requests = {}
    /\ logs = EmptyBag
    /\ reply = NoReply

NextLedger ==
    \/ AdminTest("w1", "tX", "ok")
    \/ \E p \in 1..Len(pipelines), r \in LedgerResponses : FetchResolved(p, r)
    \/ \E p \in 1..Len(pipelines) : FetchRejected(p, LongFetchError, 30000)
    \/ \E p \in 1..Len(pipelines) : InsertResolved(p)
    \/ \E p \in 1..Len(pipelines) : InsertRejected(p)
    \/ \E p \in 1..Len(pipelines) : CatchInsertResolved(p)
    \/ \E p \in 1..Len(pipelines) : CatchInsertRejected(p)
    \/ \E p \in 1..Len(pipelines) : AdminTestReturn(p)
    \/ AdminGet("w1", "tX", "ok")

SpecLedger == InitLedger /\ [][NextLedger]_vars

(***************************************************************************)
(* Configuration.  Tenant X creates a subscription, or stores a new retry  *)
(* count for w1, and an event of tenant X is delivered to both while the   *)
(* endpoints fail or answer.                                               *)
(***************************************************************************)
\* The retry counts a request can carry: none, and numbers the routes take
\* as they come.
RetryInputs == {Null, Some(0 - 1), Some(0), Some(1)}

\* A body of POST / that passes its checks; it names tenant Y as the owner.
CreateRequest(secret, headers, retryCount) ==
    Body(Some("n"), Some("https://new.example/hook"), secret,
         Some({"video.deleted"}), Null, headers, retryCount)
    @@ [userId |-> "tY"]

\* Bodies of POST /: every retry count without a secret, and an empty and a
\* given secret, the latter under a custom signature header.
ConfigCreateBodies ==
    {CreateRequest(Null, Null, rc) : rc \in RetryInputs}
    \cup {CreateRequest(Some(""), Null, Some(1)),
          CreateRequest(Some("own"),
                        Some(<< <<"x-webhook-signature", "sha256=forged">> >>),
                        Some(1))}

\* Bodies of PATCH /:id that carry a retry count only.
ConfigUpdateBodies ==
    {Body(Null, Null, Null, Null, Null, Null, rc) : rc \in RetryInputs \ {Null}}

InitConfig ==
    /\ webhooks = AdminTable(Some(2))
    /\ deliveries = {}
    /\ call = IdleCall
    /\ pipelines = <<>>
    /\ requests = {}
    /\ logs = EmptyBag
    /\ reply = NoReply

NextConfig ==
    \/ \E u \in Callers, b \in ConfigCreateBodies : AdminCreate(u, b, "ok")
    \/ \E b \in ConfigUpdateBodies : AdminUpdate("w1", "tX", b, "ok")
    \/ TriggerEvent("video.deleted", "d1", "tX")
    \/ LookupResolved
    \/ TriggerReturn
    \/ \E p \in 1..Len(pipelines), status \in AdminStatuses :
          FetchResolved(p, BareResponse(status))
    \/ \E p \in 1..Len(pipelines) : InsertResolved(p)
    \/ \E p \in 1..Len(pipelines) : TimerFired(p)

SpecConfig == InitConfig /\ [][NextConfig]_vars

(***************************************************************************)
(* Tests.  The owners test their subscriptions; w1 is active or not, is    *)
(* subscribed to the test event or not, and has two attempts.              *)
(***************************************************************************)
TestTable(active, events) ==
    {WebhookRow("w1", "tX", active, events, Some("k1"), Null, Some(2)),
     WebhookRow("w2", "tY", 1, EventTypes, Null, Null, Some(1))}

InitTest ==
    /\ \E active \in {0, 1}, events \in {{"folder.created"}, {"webhook.test"}} :
          webhooks = TestTable(active, events)
    /\ deliveries = {}
    /\ call = IdleCall
    /\ pipelines = <<>>
    /\ requests = {}
    /\ logs = EmptyBag
    /\ reply = NoReply

NextTest ==
    \/ \E id \in WebhookIds, u \in Tenants : AdminTest(id, u, "ok")
    \/ \E p \in 1..Len(pipelines), status \in AdminStatuses :
          FetchResolved(p, BareResponse(status))
    \/ \E p \in 1..Len(pipelines) : FetchRejected(p, "fetch failed", 0)
    \/ \E p \in 1..Len(pipelines) : InsertResolved(p)
    \/ \E p \in 1..Len(pipelines) : CatchInsertResolved(p)
    \/ \E p \in 1..Len(pipelines) : TimerFired(p)
    \/ \E p \in 1..Len(pipelines) : AdminTestReturn(p)

SpecTest == InitTest /\ [][NextTest]_vars

(***************************************************************************)
(* Vocabulary of the properties.                                           *)
(***************************************************************************)
PipelineIds == 1..Len(pipelines)
RowsOf(p) == {d \in deliveries : d.pipeline = p}
RowsOfAttempt(p, n) == {d \in RowsOf(p) : d.attempt = n}
\* The running invocation of the pipeline has ended (returned or rejected).
AttemptOver(pl) == pl.pc \in {"backoff", "done", "rejected"}
\* The pipeline has ended: no invocation runs and no timer is armed.
Terminated(pl) == pl.pc \in {"done", "rejected"}
\* The first attempt of the pipeline has ended.
FirstAttemptOver(pl) == pl.attempt > 1 \/ AttemptOver(pl)
\* fetch() gave a 2xx response.
Is2xx(outcome) == outcome >= 200 /\ outcome <= 299
\* The subscription is one triggerEvent(eventType, data, tenant) must deliver to.
Subscribed(w, eventType, tenant) ==
    w.active = 1 /\ w.userId = tenant /\ eventType \in w.events
\* The number of pipelines in `pls` that deliver to the subscription `id`.
PipelinesFor(pls, id) == Cardinality({i \in 1..Len(pls) : pls[i].webhook.id = id})
SignatureHeader == "x-webhook-signature"
DeliveryIdHeader == "x-webhook-delivery-id"

(***************************************************************************)
(* C1 (as stated): every triggerEvent call starts exactly one pipeline     *)
(* for each subscription that is active, owned by the tenant and           *)
(* subscribed to the event type, and none for any other subscription.      *)
(* Stated for the step in which the call's lookup ends.                    *)
(***************************************************************************)
C1_EveryCallStartsMatching ==
    [][(call.state = "lookup" /\ call'.state # "lookup") =>
        \A w \in webhooks :
            PipelinesFor(pipelines', w.id) =
                IF Subscribed(w, call.eventType, call.userId) THEN 1 ELSE 0]_vars

(***************************************************************************)
(* C1 (amended): when the lookup succeeds, exactly one pipeline, with one  *)
(* POST, is started for each subscription that is active, owned by the     *)
(* tenant and subscribed to the event type; when the lookup fails no       *)
(* pipeline is started; and in every case no pipeline, POST or Attempt     *)
(* record exists for a subscription that is inactive, not subscribed or    *)
(* owned by another tenant.                                                *)
(***************************************************************************)
C1_DispatchMatchesTenant ==
    [][/\ (call.state = "lookup" /\ call'.state = "awaiting") =>
            \A w \in webhooks :
                /\ PipelinesFor(pipelines', w.id) =
                      IF Subscribed(w, call.eventType, call.userId) THEN 1 ELSE 0
                /\ Cardinality({r \in requests' :
                                   pipelines'[r.pipeline].webhook.id = w.id}) =
                      IF Subscribed(w, call.eventType, call.userId) THEN 1 ELSE 0
       /\ (call.state = "lookup" /\ call'.state \notin {"lookup", "awaiting"}) =>
            pipelines' = <<>> /\ requests' = {}
       /\ \A i \in 1..Len(pipelines') :
            Subscribed(pipelines'[i].webhook, call'.eventType, call'.userId)
       /\ \A r \in requests' : r.pipeline \in 1..Len(pipelines')
       /\ \A d \in deliveries' :
            /\ d.pipeline \in 1..Len(pipelines')
            /\ d.webhookId = pipelines'[d.pipeline].webhook.id]_vars

\* Reached: tenant X's call has started a pipeline for X's subscription while
\* an active subscription of another tenant, subscribed to the same event
\* type, has none.
C1_Witness ==
    /\ call.state \in {"awaiting", "returned"}
    /\ \E s1, s2 \in webhooks :
          /\ Subscribed(s1, call.eventType, call.userId)
          /\ PipelinesFor(pipelines, s1.id) = 1
          /\ s2.active = 1 /\ call.eventType \in s2.events
          /\ s2.userId # call.userId
          /\ PipelinesFor(pipelines, s2.id) = 0

(***************************************************************************)
(* C2: a terminated pipeline has produced k Attempt records when attempt k *)
(* is its first successful (2xx) attempt, and exactly maxRetries records   *)
(* when no attempt succeeded.                                              *)
(***************************************************************************)
C2_RecordCount ==
    \A p \in PipelineIds :
        LET pl == pipelines[p]
            won == {k \in 1..Len(pl.outcomes) : Is2xx(pl.outcomes[k])}
        IN Terminated(pl) =>
              /\ won # {} =>
                    \E k \in won : /\ \A j \in won : k <= j
                                   /\ Cardinality(RowsOf(p)) = k
              /\ won = {} => Cardinality(RowsOf(p)) = RetryLimit(pl.webhook)

(***************************************************************************)
(* C3: Success is terminal: once an attempt of a pipeline has received a   *)
(* 2xx response, no retry timer is armed and no further POST is sent for   *)
(* that pipeline.                                                          *)
(***************************************************************************)
C3_SuccessIsTerminal ==
    \A p \in PipelineIds :
        \A k \in 1..Len(pipelines[p].outcomes) :
            Is2xx(pipelines[p].outcomes[k]) =>
                /\ pipelines[p].pc # "backoff"
                /\ pipelines[p].attempt = k
                /\ \A r \in requests : r.pipeline = p => r.attempt <= k

(***************************************************************************)
(* C4: after an unsuccessful attempt n, another attempt is scheduled iff   *)
(* n < maxRetries, and the timer delay is exactly 2^n seconds.             *)
(***************************************************************************)
C4_RetryIffBelowMax ==
    \A p \in PipelineIds :
        LET pl == pipelines[p]
        IN (AttemptOver(pl) /\ ~Is2xx(pl.outcomes[pl.attempt])) =>
              /\ pl.pc = "backoff" <=> pl.attempt < RetryLimit(pl.webhook)
              /\ pl.pc = "backoff" => pl.timer = (2 ^ pl.attempt) * 1000

(***************************************************************************)
(* C5: every HTTP attempt that has ended has exactly one Attempt record,   *)
(* and the record of an attempt exists when the timer of the next attempt  *)
(* is armed.                                                               *)
(***************************************************************************)
C5_OneRecordPerAttempt ==
    \A p \in PipelineIds :
        \A n \in 1..pipelines[p].attempt :
            (n < pipelines[p].attempt \/ AttemptOver(pipelines[p])) =>
                Cardinality(RowsOfAttempt(p, n)) = 1

(***************************************************************************)
(* C6: a pipeline whose first attempt has finished has at least one        *)
(* Attempt record, and the ordinals of its records are 1..m without gap    *)
(* or duplicate.                                                           *)
(***************************************************************************)
C6_AtLeastOneConsecutive ==
    \A p \in PipelineIds :
        /\ FirstAttemptOver(pipelines[p]) => RowsOf(p) # {}
        /\ {d.attempt : d \in RowsOf(p)} = 1..Cardinality(RowsOf(p))

C9_SignatureOverBody ==
    \A r \in requests :
        LET w == pipelines[r.pipeline].webhook
        IN TruthyString(w.secret) =>
              WireValue(r.headers, SignatureHeader) =
                  Some("sha256=" \o HmacSha256Hex(Val(w.secret), r.body))

(***************************************************************************)
(* C10: a request carries an X-Webhook-Signature header iff the            *)
(* subscription has a non-empty secret, whatever custom headers it has.    *)
(***************************************************************************)
C10_SignatureIffSecret ==
    \A r \in requests :
        ~IsNull(WireValue(r.headers, SignatureHeader))
            <=> TruthyString(pipelines[r.pipeline].webhook.secret)

(***************************************************************************)
(* C11: every HTTP attempt carries its own delivery id: any two attempts,  *)
(* of one pipeline or of different pipelines, send different               *)
(* X-Webhook-Delivery-ID values, and the value sent is the one generated   *)
(* for that attempt, whatever custom headers the subscription has.         *)
(***************************************************************************)
C11_DistinctDeliveryIds ==
    \A r1, r2 \in requests :
        /\ WireValue(r1.headers, DeliveryIdHeader) =
              Some(RandomUUID(r1.pipeline, r1.attempt))
        /\ r1 # r2 => WireValue(r1.headers, DeliveryIdHeader) #
                          WireValue(r2.headers, DeliveryIdHeader)

(***************************************************************************)
(* C12: an Attempt record has success = true iff the HTTP response of its  *)
(* attempt had a status in 200..299; the record of every other status and  *)
(* of every attempt whose fetch failed has success = false.                *)
(***************************************************************************)
C12_SuccessIff2xx ==
    \A d \in deliveries :
        d.success = 1 <=> Is2xx(pipelines[d.pipeline].outcomes[d.attempt])

(***************************************************************************)
(* C13: a delivery attempt never throws past its own boundary: no          *)
(* deliverWebhook invocation ends with its promise rejected, whatever the  *)
(* fetch and the ledger inserts do.                                        *)
(***************************************************************************)
C13_AttemptNeverThrows ==
    \A p \in PipelineIds : pipelines[p].pc # "rejected"

\* Some step of pipeline p: of its running invocation, or of its timer.
PipelineStep(p) ==
    \/ \E status \in Statuses : FetchResolved(p, BareResponse(status))
    \/ \E message \in FetchErrors : FetchRejected(p, message, 0)
    \/ InsertResolved(p)
    \/ InsertRejected(p)
    \/ CatchInsertResolved(p)
    \/ CatchInsertRejected(p)
    \/ TimerFired(p)
\* The POSTs of pipeline p.
RequestsOf(p) == {r \in requests : r.pipeline = p}

(***************************************************************************)
(* C14: the pipelines one triggerEvent starts are independent.  The        *)
(* dispatch starts all of them at once, each with its POST in flight, so   *)
(* none waits for another; a pipeline that has not ended can always take   *)
(* its next step, whatever state the others are in; and a step of one      *)
(* pipeline leaves every other pipeline, its POSTs and its records as they *)
(* were.                                                                   *)
(***************************************************************************)
C14_PipelinesIndependent ==
    [][/\ (call.state = "lookup" /\ call'.state = "awaiting") =>
            /\ Len(pipelines') - Len(pipelines) =
                  Cardinality({w \in webhooks :
                                  Subscribed(w, call.eventType, call.userId)})
            /\ \A p \in (Len(pipelines) + 1)..Len(pipelines') :
                  /\ pipelines'[p].pc = "fetching"
                  /\ \E r \in requests' : r.pipeline = p /\ r.attempt = 1
       /\ \A p \in 1..Len(pipelines) :
            /\ ~Terminated(pipelines[p]) => ENABLED PipelineStep(p)
            /\ pipelines'[p] # pipelines[p] =>
                  \A q \in 1..Len(pipelines) \ {p} :
                      /\ pipelines'[q] = pipelines[q]
                      /\ {r \in requests' : r.pipeline = q} = RequestsOf(q)
                      /\ {d \in deliveries' : d.pipeline = q} = RowsOf(q)]_vars

\* Reached: pipeline b has been answered 2xx, recorded and has ended while
\* pipeline a, started by the same call, still awaits its first response, or
\* has failed and waits in backoff, or was rejected.
C14_Witness ==
    \E a, b \in PipelineIds :
        /\ a # b
        /\ pipelines[a].pc \in {"fetching", "backoff", "rejected"}
        /\ pipelines[b].pc = "done"
        /\ \E d \in RowsOf(b) : d.success = 1

\* The POSTs of pipeline p are one per attempt up to the running one, at most
\* one of them unanswered, every earlier attempt recorded, and a timer that
\* is armed has a positive delay.
SequentialPipeline(p) ==
    LET pl == pipelines[p]
        inFlight == Cardinality(RequestsOf(p)) - Len(pl.outcomes)
    IN /\ Cardinality(RequestsOf(p)) = pl.attempt
       /\ {r.attempt : r \in RequestsOf(p)} = 1..pl.attempt
       /\ inFlight \in {0, 1}
       /\ inFlight = 1 <=> pl.pc = "fetching"
       /\ \A n \in 1..(pl.attempt - 1) : RowsOfAttempt(p, n) # {}
       /\ pl.pc = "backoff" => pl.timer > 0 /\ RowsOfAttempt(p, pl.attempt) # {}

(***************************************************************************)
(* C15: within one pipeline the attempts are strictly sequential: at most  *)
(* one POST is in flight, attempt n+1 is sent only by the backoff timer,   *)
(* armed with a positive delay after attempt n has ended and has been      *)
(* recorded.                                                               *)
(***************************************************************************)
C15_AttemptsSequential ==
    [][\A p \in 1..Len(pipelines) :
          /\ SequentialPipeline(p)
          /\ SequentialPipeline(p)'
          /\ pipelines'[p].attempt # pipelines[p].attempt =>
                /\ pipelines'[p].attempt = pipelines[p].attempt + 1
                /\ pipelines[p].pc = "backoff"
                /\ pipelines[p].timer > 0
                /\ pipelines'[p].pc = "fetching"]_vars

\* Reached: the second attempt of a pipeline is in flight, the first recorded.
C15_Witness ==
    \E p \in PipelineIds :
        /\ pipelines[p].attempt = 2 /\ pipelines[p].pc = "fetching"
        /\ Cardinality(RowsOfAttempt(p, 1)) = 1
        /\ Cardinality(RequestsOf(p)) = 2

\* How many times the failure of the lookup has been logged.
LookupFailuresLogged ==
    CopiesIn(LogEntry("error", "Failed to trigger webhooks", 0, 0), logs)

(***************************************************************************)
(* C18: when the lookup of the tenant's subscriptions fails, the step that *)
(* ends the lookup logs the failure once, starts no pipeline (no POST, no  *)
(* Attempt record, no timer) and returns normally; afterwards the lookup   *)
(* is not run again, nothing more is logged and still no pipeline exists.  *)
(* A lookup that succeeds logs no failure.                                 *)
(***************************************************************************)
C18_LookupFailureLoggedOnce ==
    [][/\ (call.state = "lookup" /\ call'.state # "awaiting") =>
            /\ call'.state = "returned"
            /\ LookupFailuresLogged = 0 /\ LookupFailuresLogged' = 1
            /\ BagCardinality(logs') = BagCardinality(logs) + 1
            /\ pipelines' = pipelines /\ requests' = requests
            /\ deliveries' = deliveries
       /\ (call.state = "lookup" /\ call'.state = "awaiting") =>
            LookupFailuresLogged' = 0
       /\ LookupFailuresLogged >= 1 =>
            /\ call'.state = "returned" /\ logs' = logs
            /\ pipelines' = <<>> /\ requests' = {} /\ deliveries' = {}]_vars

\* Reached: the lookup has failed and the call has returned; the failure is in
\* the log once and nothing was started.
C18_Witness ==
    /\ call.state = "returned"
    /\ LookupFailuresLogged = 1
    /\ pipelines = <<>> /\ requests = {} /\ deliveries = {}

(***************************************************************************)
(* C17: a pipeline that has ended (no attempt running, no timer armed) has *)
(* ended in Success, its last attempt answered 2xx, or in Exhausted, its   *)
(* last attempt being attempt maxRetries; and no attempt beyond attempt    *)
(* maxRetries is ever made.                                                *)
(***************************************************************************)
C17_EndsInSuccessOrExhausted ==
    \A p \in PipelineIds :
        LET pl == pipelines[p]
        IN /\ Terminated(pl) =>
                \/ Is2xx(pl.outcomes[pl.attempt])
                \/ pl.attempt >= RetryLimit(pl.webhook)
           /\ pl.attempt > 1 => pl.attempt <= RetryLimit(pl.webhook)

\* The stored row of the subscription `id` has been changed to the values of
\* the PATCH that replaces every column.
UpdatedMidFlight(id) ==
    \E w \in webhooks :
        /\ w.id = id /\ w.url = "https://new.example/hook" /\ w.secret = Some("k2")
        /\ w.retryCount = Some(1) /\ w.active = 0

(***************************************************************************)
(* C16: a pipeline works on the subscription row read when it was started  *)
(* and on nothing else.  The row a pipeline holds is a row of the table at *)
(* the step that starts it and never changes afterwards; every POST of the *)
(* pipeline goes to the URL of that row, signed with its secret, and the   *)
(* attempts stay within its retry count; a step that changes the table     *)
(* changes no pipeline and no POST.                                        *)
(***************************************************************************)
C16_ConfigReadAtDispatch ==
    [][/\ \A p \in 1..Len(pipelines) : pipelines'[p].webhook = pipelines[p].webhook
       /\ \A p \in (Len(pipelines) + 1)..Len(pipelines') :
             pipelines'[p].webhook \in webhooks
       /\ \A r \in requests' :
             LET w == pipelines'[r.pipeline].webhook
             IN /\ r.url = w.url
                /\ r.attempt <= RetryLimit(w)
                /\ TruthyString(w.secret) =>
                      WireValue(r.headers, SignatureHeader) =
                          Some("sha256=" \o HmacSha256Hex(Val(w.secret), r.body))
                /\ WireValue(r.headers, "x-custom") =
                      IF IsNull(w.headers) THEN Null
                      ELSE WireValue(Val(w.headers), "x-custom")
       /\ webhooks' # webhooks => pipelines' = pipelines /\ requests' = requests]_vars

\* Reached: the subscription was updated (new URL, secret, headers, retry
\* count 1, inactive) and the pipeline started before has sent its second
\* attempt to the old URL.
C16_Witness ==
    /\ UpdatedMidFlight("w1")
    /\ \E r \in requests :
          /\ r.attempt = 2 /\ r.url = "https://hooks.example/w1"
          /\ pipelines[r.pipeline].webhook.id = "w1"

\* The routes that act on one subscription.
SubscriptionOps == {"get", "update", "delete", "test", "deliveries"}
\* The step sends a response.
Responds == reply'.seq # reply.seq
\* The step receives a request and answers it: the table the route reads is
\* the table of the step.
AnswersAtOnce == Responds /\ reply'.received # reply.received
\* The id of the response is not stored / is stored for another tenant, in the
\* table the request found.
IdAbsent == \A w \in webhooks : w.id # reply'.id
IdForeign == \E w \in webhooks : w.id = reply'.id /\ w.userId # reply'.userId
\* The step leaves the tables, the pipelines and the POSTs as they were.
ChangesNothing ==
    /\ webhooks' = webhooks /\ deliveries' = deliveries
    /\ pipelines' = pipelines /\ requests' = requests

(***************************************************************************)
(* C19 (as stated): every admin operation on one subscription, called by a *)
(* tenant, answers "not found" (404) when the id is not stored and         *)
(* "forbidden" (403) when the subscription is another tenant's, and        *)
(* changes nothing in these cases; the list holds only the caller's own    *)
(* subscriptions.                                                          *)
(***************************************************************************)
C19_NotFoundOrForbidden ==
    [][(AnswersAtOnce /\ reply'.userId # "") =>
          /\ reply'.op \in SubscriptionOps =>
                /\ IdAbsent => reply'.status = 404 /\ ChangesNothing
                /\ IdForeign => reply'.status = 403 /\ ChangesNothing
          /\ reply'.op = "list" =>
                \A w \in reply'.body : w.userId = reply'.userId]_vars

(***************************************************************************)
(* C19 (amended): whenever the store answers the lookup of the route,      *)
(* every admin operation on one subscription, called by a tenant, answers  *)
(* 404 when the id is not stored and 403 when the subscription is another  *)
(* tenant's, and only then; when the lookup throws it answers 500.  A      *)
(* request answered 404, 403, 500 or 401 changes nothing and returns no    *)
(* row.  The list holds exactly the caller's own subscriptions.            *)
(***************************************************************************)
C19_GuardedUnlessStoreFails ==
    [][Responds =>
          /\ (AnswersAtOnce /\ reply'.op \in SubscriptionOps /\ reply'.userId # ""
              /\ reply'.status # 500) =>
                /\ IdAbsent <=> reply'.status = 404
                /\ IdForeign <=> reply'.status = 403
          /\ reply'.userId = "" => reply'.status = 401
          /\ reply'.status \in {401, 403, 404, 500} =>
                ChangesNothing /\ reply'.body = {}
          /\ (reply'.op = "list" /\ reply'.status = 200) =>
                reply'.body = {w \in webhooks : w.userId = reply'.userId}]_vars

\* Reached: tenant X asked to delete the subscription of tenant Y, was
\* answered 403, and the subscription is still stored.
C19_Witness ==
    /\ reply.op = "delete" /\ reply.id = "w2" /\ reply.userId = "tX"
    /\ reply.status = 403
    /\ \E w \in webhooks : w.id = "w2" /\ w.userId = "tY"

(***************************************************************************)
(* C20: every stored subscription has a URL that parses as an absolute URL *)
(* and a non-empty set of events, after any sequence of creates and        *)
(* updates.                                                                *)
(***************************************************************************)
C20_StoredSubscriptionsValid ==
    \A w \in webhooks : ParsesAsUrl(w.url) /\ w.events # {}

\* The payload without its timestamp.
Untimed(payload) ==
    [event |-> payload.event, data |-> payload.data, webhookId |-> payload.webhookId]

(***************************************************************************)
(* C25 (as stated): the attempt a retry timer starts is attempt n+1 and    *)
(* is made with the payload built at trigger time: every POST and every    *)
(* Attempt record of one pipeline carries an identical payload (event,     *)
(* timestamp, data, webhookId).                                            *)
(***************************************************************************)
C25_SamePayloadEveryAttempt ==
    /\ \A r1, r2 \in requests : r1.pipeline = r2.pipeline => r1.body = r2.body
    /\ \A d1, d2 \in deliveries : d1.pipeline = d2.pipeline => d1.payload = d2.payload

(***************************************************************************)
(* C25 (amended): the attempt a retry timer starts is attempt n+1, for the *)
(* same subscription, event type and data; its payload is built anew: it   *)
(* has the event, data and webhookId of the payload of attempt n and a     *)
(* timestamp later by at least the backoff delay, and it is the body of    *)
(* the POST the step sends.                                                *)
(***************************************************************************)
C25_RetryRebuildsPayload ==
    [][\A p \in 1..Len(pipelines) :
          pipelines'[p].attempt # pipelines[p].attempt =>
             LET old == pipelines[p]
                 new == pipelines'[p]
             IN /\ new.attempt = old.attempt + 1
                /\ new.eventType = old.eventType /\ new.data = old.data
                /\ Untimed(new.payload) = Untimed(old.payload)
                /\ new.payload.timestamp >= old.payload.timestamp + BackoffDelay(old.attempt)
                /\ \E r \in requests' \ requests :
                      /\ r.pipeline = p /\ r.attempt = new.attempt
                      /\ r.body = JSONStringify(new.payload)]_vars

\* Reached: a pipeline has sent its second attempt, whose body differs from
\* the body of the first.
C25_Witness ==
    \E r1, r2 \in requests :
        /\ r1.pipeline = r2.pipeline /\ r1.attempt = 1 /\ r2.attempt = 2
        /\ r1.body # r2.body

(***************************************************************************)
(* C26: the payload of an Attempt record is the payload that attempt       *)
(* sent, stamped when that attempt built it: the record of a later attempt *)
(* of a pipeline has a later timestamp than the record of an earlier one,  *)
(* while event, data and webhookId are the same in all of them.            *)
(***************************************************************************)
C26_RecordsStampedPerAttempt ==
    /\ \A d \in deliveries :
          \E r \in requests :
              /\ r.pipeline = d.pipeline /\ r.attempt = d.attempt
              /\ r.body = JSONStringify(d.payload)
    /\ \A d1, d2 \in deliveries :
          d1.pipeline = d2.pipeline =>
              /\ Untimed(d1.payload) = Untimed(d2.payload)
              /\ d1.attempt < d2.attempt =>
                    d1.payload.timestamp < d2.payload.timestamp

\* Reached: a pipeline has the records of two attempts, the second stamped
\* later than the first.
C26_Witness ==
    \E d1, d2 \in deliveries :
        /\ d1.pipeline = d2.pipeline /\ d1.attempt = 1 /\ d2.attempt = 2
        /\ d1.payload.timestamp < d2.payload.timestamp

\* The entries the invocation of attempt n of pipeline p has logged.
LoggedBy(p, n) == {e \in BagToSet(logs) : e.pipeline = p /\ e.attempt = n}

(***************************************************************************)
(* C28: a pipeline that has ended with its attempt number maxRetries       *)
(* unsuccessful (a response outside 200..299, or no response) has an       *)
(* entry of level warn or error logged by that attempt, and no attempt     *)
(* that was unsuccessful has logged "Webhook delivered successfully".      *)
(***************************************************************************)
C28_ExhaustionLogged ==
    \A p \in PipelineIds :
        LET pl == pipelines[p]
        IN /\ (/\ pl.pc = "done"
               /\ ~Is2xx(pl.outcomes[pl.attempt])
               /\ pl.attempt >= RetryLimit(pl.webhook)) =>
                  \E e \in LoggedBy(p, pl.attempt) : e.level \in {"warn", "error"}
           /\ \A n \in 1..Len(pl.outcomes) :
                 ~Is2xx(pl.outcomes[n]) =>
                     \A e \in LoggedBy(p, n) :
                         e.message # "Webhook delivered successfully"

\* The webhooks table has a row with this id.
Stored(table, id) == \E w \in table : w.id = id

(***************************************************************************)
(* C21: the step in which a delete is answered 204 removes the             *)
(* subscription and all of its Attempt records: right after it the recent  *)
(* attempts of that id are the empty set, and the Attempt records of every *)
(* other subscription are the ones there were before.                      *)
(***************************************************************************)
C21_DeleteCascades ==
    [][(Responds /\ reply'.op = "delete" /\ reply'.status = 204) =>
          /\ Stored(webhooks, reply'.id) /\ ~Stored(webhooks', reply'.id)
          /\ ListRecent(deliveries', reply'.id) = {}
          /\ \A w \in webhooks' :
                ListRecent(deliveries', w.id) = ListRecent(deliveries, w.id)
          /\ deliveries' \subseteq deliveries]_vars

\* Reached: w1 was deleted after its pipeline had recorded an attempt; w1 has
\* no Attempt record left and the record of w2 is still there.
C21_Witness ==
    /\ reply.op = "delete" /\ reply.id = "w1" /\ reply.status = 204
    /\ \E p \in PipelineIds :
          pipelines[p].webhook.id = "w1" /\ pipelines[p].pc = "backoff"
    /\ ListRecent(deliveries, "w1") = {}
    /\ ListRecent(deliveries, "w2") = {PastDelivery}

(***************************************************************************)
(* C27: Attempt records are immutable.  A step adds at most one record and *)
(* leaves all the others as they are, whether it is a step of the          *)
(* dispatcher, of an attempt, of a retry timer, a read of the stats or of  *)
(* the history, or an update of the subscription; a record goes away only  *)
(* in a step that deletes the subscription it belongs to.                  *)
(***************************************************************************)
C27_RecordsImmutable ==
    [][/\ Cardinality(deliveries' \ deliveries) <= 1
       /\ \A d \in deliveries \ deliveries' :
             Stored(webhooks, d.webhookId) /\ ~Stored(webhooks', d.webhookId)
       /\ (\A w \in webhooks : Stored(webhooks', w.id)) =>
             deliveries \subseteq deliveries']_vars

\* Reached: the subscription was updated and its history read, and the
\* pipeline has the separate records of its first and its second attempt.
C27_Witness ==
    /\ UpdatedMidFlight("w1")
    /\ reply.op = "deliveries" /\ reply.status = 200
    /\ \E p \in PipelineIds :
          RowsOfAttempt(p, 1) # {} /\ RowsOfAttempt(p, 2) # {}

(***************************************************************************)
(* C30: a scheduled retry is never cancelled.  Whatever happens to the     *)
(* subscription, a pipeline in backoff stays in backoff until its timer    *)
(* fires, the timer can always fire, and when it fires the POST of the     *)
(* next attempt is sent to the URL the pipeline holds; no Attempt record   *)
(* is ever written for a subscription that is not stored.                  *)
(***************************************************************************)
C30_RetryNotCancelled ==
    [][/\ \A p \in 1..Len(pipelines) :
             pipelines[p].pc = "backoff" =>
                /\ ENABLED TimerFired(p)
                /\ \/ pipelines'[p] = pipelines[p]
                   \/ /\ pipelines'[p].pc = "fetching"
                      /\ \E r \in requests' \ requests :
                            /\ r.pipeline = p
                            /\ r.attempt = pipelines[p].attempt + 1
                            /\ r.url = pipelines[p].webhook.url
       /\ \A d \in deliveries' \ deliveries : Stored(webhooks, d.webhookId)]_vars

\* Reached: w1 is deleted, the second attempt of its pipeline was sent all
\* the same, and the pipeline has ended with no record left or written.
C30_Witness ==
    /\ ~Stored(webhooks, "w1")
    /\ \E p \in PipelineIds :
          /\ pipelines[p].webhook.id = "w1"
          /\ pipelines[p].attempt = 2 /\ pipelines[p].pc = "rejected"
          /\ \E r \in RequestsOf(p) :
                r.attempt = 2 /\ r.url = pipelines[p].webhook.url
          /\ RowsOf(p) = {}

(***************************************************************************)
(* C29: every record written has a response status exactly when the        *)
(* attempt received an HTTP response; its stored body is at most 5,000     *)
(* characters and is the empty string when the body could not be read; its *)
(* stored error is at most 5,000 characters and is absent when the record  *)
(* is a success.                                                           *)
(***************************************************************************)
C29_RecordFields ==
    [][\A d \in deliveries' \ deliveries :
          LET pl == pipelines[d.pipeline]
          IN /\ ~IsNull(d.responseStatus) <=> pl.outcomes[pl.attempt] # 0
             /\ ~IsNull(d.responseBody) => Len(Val(d.responseBody)) <= 5000
             /\ (~IsNull(pl.response) /\ IsNull(Val(pl.response).body)) =>
                    d.responseBody = Some("")
             /\ ~IsNull(d.error) => Len(Val(d.error)) <= 5000
             /\ d.success = 1 => IsNull(d.error)]_vars

\* The step answers a stats read: GET /:id, answered 200.
ReadsStats == Responds /\ reply'.op = "get" /\ reply'.status = 200
\* The statistics the step returns.
StatsRead == (CHOOSE b \in reply'.body : TRUE).stats
\* The records of the subscription the step reads.
RecordsRead == {d \in deliveries : d.webhookId = reply'.id}

\* The sets of the `limit` most recently created of the rows: all of them when
\* they are no more; otherwise the rows created after some time t and as many
\* of those created at t as fill the window.
NewestWindows(rows, limit) ==
    IF Cardinality(rows) <= limit THEN {rows}
    ELSE LET t == CHOOSE u \in {d.createdAt : d \in rows} :
                     /\ Cardinality({d \in rows : d.createdAt >= u}) >= limit
                     /\ Cardinality({d \in rows : d.createdAt > u}) < limit
             newer == {d \in rows : d.createdAt > t}
             edge == {d \in rows : d.createdAt = t}
         IN {newer \cup some :
                some \in {x \in SUBSET edge :
                              Cardinality(x) = limit - Cardinality(newer)}}

\* |a - b| is at most half of unit: a is b / unit rounded to an integer.
RoundingOf(a, b, unit) ==
    2 * (a * unit - b) <= unit /\ 2 * (b - a * unit) <= unit

(***************************************************************************)
(* C22: the statistics of a subscription are computed over the at most     *)
(* 1,000 most recently created of its own records: total is the size of    *)
(* that window, successful the number of its records with success = 1,     *)
(* failed = total - successful, successRate = successful / total * 100 and *)
(* avgDuration the mean of its durations.  (successRate is in hundredths   *)
(* of a percent.)                                                          *)
(***************************************************************************)
C22_StatsOverWindow ==
    [][ReadsStats =>
          \E window \in NewestWindows(RecordsRead, 1000) :
             LET successful == Cardinality({d \in window : d.success = 1})
             IN /\ StatsRead.total = Cardinality(window)
                /\ StatsRead.total <= 1000
                /\ StatsRead.successful = successful
                /\ StatsRead.failed = StatsRead.total - successful
                /\ StatsRead.total > 0 =>
                      /\ StatsRead.successRate * StatsRead.total
                            = successful * 10000
                      /\ StatsRead.avgDuration * StatsRead.total
                            = SumDurations(window)]_vars

(***************************************************************************)
(* C22 (amended): as C22, with successRate = successful / total * 100      *)
(* rounded to two decimals and avgDuration the mean of the durations       *)
(* rounded to an integer.                                                  *)
(***************************************************************************)
C22_RoundedStatsOverWindow ==
    [][ReadsStats =>
          \E window \in NewestWindows(RecordsRead, 1000) :
             LET successful == Cardinality({d \in window : d.success = 1})
             IN /\ StatsRead.total = Cardinality(window)
                /\ StatsRead.total <= 1000
                /\ StatsRead.successful = successful
                /\ StatsRead.failed = StatsRead.total - successful
                /\ StatsRead.total > 0 =>
                      /\ RoundingOf(StatsRead.successRate, successful * 10000,
                                    StatsRead.total)
                      /\ RoundingOf(StatsRead.avgDuration,
                                    SumDurations(window), StatsRead.total)]_vars

\* Reached: the statistics of w1 were read over 1,000 records while more
\* than 1,000 of its records, and records of w2, were stored.
C22_Witness ==
    /\ reply.op = "get" /\ reply.id = "w1" /\ reply.status = 200
    /\ \E b \in reply.body : b.stats.total = 1000 /\ b.stats.failed > 0
    /\ Cardinality({d \in deliveries : d.webhookId = "w1"}) > 1000
    /\ \E d \in deliveries : d.webhookId = "w2"

(***************************************************************************)
(* C23: for a subscription with no recorded attempt the statistics are     *)
(* total = 0, successful = 0, failed = 0, successRate = 0 and              *)
(* avgDuration = 0.                                                        *)
(***************************************************************************)
C23_EmptyStatsAreZero ==
    [][(ReadsStats /\ RecordsRead = {}) =>
          StatsRead = [total |-> 0, successful |-> 0, failed |-> 0,
                       successRate |-> 0, avgDuration |-> 0]]_vars

\* Reached: the statistics of w1 were read while it had no record and w2 had
\* some.
C23_Witness ==
    /\ reply.op = "get" /\ reply.id = "w1" /\ reply.status = 200
    /\ \E b \in reply.body : b.stats.total = 0
    /\ \A d \in deliveries : d.webhookId # "w1"
    /\ \E d \in deliveries : d.webhookId = "w2"

(***************************************************************************)
(* C24: a stats read changes no state, and a second read of the same       *)
(* subscription, made before any record is written, returns the values of  *)
(* the first.                                                              *)
(***************************************************************************)
C24_StatsReadRepeats ==
    [][ReadsStats =>
          /\ UNCHANGED <<webhooks, deliveries, call, pipelines, requests, logs>>
          /\ \A again \in GetDeliveryStats(deliveries', reply'.id) :
                again = StatsRead]_vars

\* The timers attempt n of pipeline p has armed: each setTimeout of
\* deliverWebhook follows one "retrying" warning.
ArmedBy(p, n) ==
    CopiesIn(LogEntry("warn", "Webhook delivery failed, retrying", p, n), logs)
    + CopiesIn(LogEntry("warn", "Webhook delivery error, retrying", p, n), logs)
\* The timers the attempts 1..n of pipeline p have armed.
RECURSIVE ArmedUpTo(_, _)
ArmedUpTo(p, n) == IF n = 0 THEN 0 ELSE ArmedBy(p, n) + ArmedUpTo(p, n - 1)
\* The timers of pipeline p that are armed and have not fired: every attempt
\* after the first was started by one.
PendingTimers(p) == ArmedUpTo(p, pipelines[p].attempt) - (pipelines[p].attempt - 1)

(***************************************************************************)
(* C31: each attempt of a pipeline arms at most one retry timer, the       *)
(* pipeline never sends more HTTP POSTs than the maximum attempt count of  *)
(* its subscription, and at most one of its timers is pending.             *)
(***************************************************************************)
C31_BoundedAttempts ==
    \A p \in PipelineIds :
        /\ \A n \in 1..pipelines[p].attempt : ArmedBy(p, n) <= 1
        /\ Cardinality(RequestsOf(p)) <= RetryLimit(pipelines[p].webhook)
        /\ PendingTimers(p) <= 1

(***************************************************************************)
(* C32: an attempt the endpoint answered 2xx counts as delivered whatever  *)
(* becomes of its ledger insert: no failure record is written for it, no   *)
(* retry is scheduled after it, and no later POST of the pipeline is sent. *)
(***************************************************************************)
C32_AcknowledgedNotRepeated ==
    \A p \in PipelineIds :
        \A n \in 1..Len(pipelines[p].outcomes) :
            Is2xx(pipelines[p].outcomes[n]) =>
                /\ \A d \in RowsOfAttempt(p, n) : d.success = 1
                /\ ~(pipelines[p].attempt = n /\ pipelines[p].pc = "backoff")
                /\ \A r \in RequestsOf(p) : r.attempt <= n

(***************************************************************************)
(* C33: in every state every Attempt record refers to a subscription that  *)
(* is stored, however deletions interleave with running pipelines and      *)
(* pending retries.                                                        *)
(***************************************************************************)
C33_RecordsOfStoredOnly ==
    \A d \in deliveries : Stored(webhooks, d.webhookId)

\* Reached: w1 was deleted after its pipeline had written a record, the retry
\* was answered all the same, and its insert is awaited; the only record left
\* is that of w2.
C33_Witness ==
    /\ ~Stored(webhooks, "w1")
    /\ \E p \in PipelineIds :
          /\ pipelines[p].webhook.id = "w1"
          /\ pipelines[p].attempt = 2 /\ pipelines[p].pc = "inserting"
          /\ \E e \in BagToSet(logs) : e.pipeline = p /\ e.attempt = 1
    /\ deliveries = {PastDelivery}

(***************************************************************************)
(* C34: once its subscription is deleted a pipeline arms no timer and      *)
(* writes no record, and sends no POST but the one of a timer that was     *)
(* pending: a pipeline deleted in backoff sends at most one further POST   *)
(* and stops there, whatever its attempt number.                           *)
(***************************************************************************)
C34_StopsAfterDelete ==
    [][\A p \in 1..Len(pipelines) :
          ~Stored(webhooks, pipelines[p].webhook.id) =>
             /\ pipelines'[p].pc = "backoff" => pipelines[p].pc = "backoff"
             /\ {r \in requests' : r.pipeline = p} # RequestsOf(p) =>
                   pipelines[p].pc = "backoff"
             /\ {d \in deliveries' : d.pipeline = p} \subseteq RowsOf(p)]_vars

\* Reached: w1 was deleted while its pipeline waited after attempt 1; attempt 2
\* was sent and answered, both inserts were refused, and the pipeline has
\* ended at attempt 2 of 3 with two POSTs sent.
C34_Witness ==
    /\ ~Stored(webhooks, "w1")
    /\ \E p \in PipelineIds :
          /\ pipelines[p].webhook.id = "w1"
          /\ RetryLimit(pipelines[p].webhook) = 3
          /\ pipelines[p].attempt = 2 /\ pipelines[p].pc = "rejected"
          /\ pipelines[p].outcomes = <<500, 500>>
          /\ Cardinality(RequestsOf(p)) = 2
          /\ ArmedUpTo(p, 2) = 1

(***************************************************************************)
(* C35: the number of attempts a pipeline makes when every attempt fails   *)
(* is the retry count stored for its subscription, whatever value was      *)
(* stored, and 3 when the stored count is 0 or unset; a subscription       *)
(* created with a retry count of 0 or none is stored with 3.               *)
(***************************************************************************)
C35_StoredRetryCountUsed ==
    /\ \A p \in PipelineIds :
          LET pl == pipelines[p]
          IN (pl.pc = "done" /\ ~Is2xx(pl.outcomes[pl.attempt])) =>
                pl.attempt = IF TruthyNumber(pl.webhook.retryCount)
                             THEN Val(pl.webhook.retryCount) ELSE 3
    /\ \A w \in webhooks : w.id = NewWebhookId => TruthyNumber(w.retryCount)

C37_TestSucceedsOnlyOn2xx ==
    [][(Responds /\ reply'.op = "test") =>
          /\ IdAbsent => \A b \in reply'.body : ~b.success
          /\ \A b \in reply'.body :
                /\ b.success =>
                      \E p \in 1..Len(pipelines) :
                          /\ pipelines[p].waiter = Some(reply'.seq)
                          /\ Is2xx(pipelines[p].outcomes[1])
                /\ b.success <=>
                      b.message = "Test webhook delivered successfully"]_vars

PatchFields ==
    {"name", "url", "secret", "events", "active", "description", "headers",
     "retryCount"}

(***************************************************************************)
(* C38: an update answered 200 changes, in the row of its subscription,    *)
(* only the fields its body carries and the update timestamp; the id and   *)
(* the owner of the row stay, every other subscription stays, and no       *)
(* Attempt record, pipeline or POST is touched.                            *)
(***************************************************************************)
C38_UpdateChangesSuppliedOnly ==
    [][(Responds /\ reply'.op = "update" /\ reply'.status = 200) =>
          \E b \in UpdateBodies, old \in webhooks, new \in webhooks' :
             /\ AdminUpdate(reply'.id, reply'.userId, b, "ok")
             /\ old.id = reply'.id /\ new.id = old.id
             /\ new.userId = old.userId
             /\ webhooks' \ {new} = webhooks \ {old}
             /\ \A f \in PatchFields : IsNull(b[f]) => new[f] = old[f]
             /\ UNCHANGED <<deliveries, pipelines, requests>>]_vars

\* Reached: w1 was renamed while its pipeline waited with a record written;
\* its secret, events and retry count are those it had, and the record of
\* w2 is still there.
C38_Witness ==
    /\ reply.op = "update" /\ reply.id = "w1" /\ reply.status = 200
    /\ \E w \in webhooks :
          /\ w.id = "w1" /\ w.name = "renamed" /\ w.updatedAt = 1
          /\ w.secret = Some("k1") /\ w.events = EventTypes
          /\ w.userId = "tX" /\ w.retryCount = Some(2)
    /\ \E p \in PipelineIds : pipelines[p].pc = "backoff" /\ RowsOf(p) # {}
    /\ PastDelivery \in deliveries

====
